---- MODULE Spec2Model ----
(***************************************************************************)
(* Britto: a reminder tool that reads birthdays and events from a config   *)
(* and prints the ones that fall inside a lookahead window.                *)
(*                                                                         *)
(* The module models three iterations of the program that live side by     *)
(* side in the repository:                                                 *)
(*   src/britto.go        templates, per-entry ReminderRange override      *)
(*   src/.britto-ng.go    OneTimeEvent flag, fixed Printf formats          *)
(*   src/unnamed/part_000 convertDateFormat on the configured layouts, a    *)
(*                        clock that is not truncated                      *)
(*                                                                         *)
(* Text is a sequence of one-character strings, so that len(), slicing,    *)
(* time.Parse and strings.ReplaceAll are computed and not assumed.         *)
(* A time.Time is a record [year, month, day]: main of britto.go truncates *)
(* now to a day boundary and every date the program builds is a midnight,  *)
(* so the hour component is 0; only the clock of part_000 has a field      *)
(* hour.  The process runs in UTC.  file is the configuration as written   *)
(* on disk, config what loadConfig decoded.                                *)
(***************************************************************************)
EXTENDS Integers, Sequences, FiniteSets, TLC

VARIABLES now, file, config, pc, idx, out, logs, conv

vars == <<now, file, config, pc, idx, out, logs, conv>>

-----------------------------------------------------------------------------
(* Bounds of the model.                                                    *)

\* longest list of entries (birthdays and events together) in a batch run
MaxEntries == 3
\* last calendar year from which now is drawn
LastNowYear == 2024

-----------------------------------------------------------------------------
(* The Go standard library, as far as the program uses it.                 *)

Digits == {"0", "1", "2", "3", "4", "5", "6", "7", "8", "9"}

digitVal(c) ==
    CASE c = "0" -> 0 [] c = "1" -> 1 [] c = "2" -> 2 [] c = "3" -> 3
      [] c = "4" -> 4 [] c = "5" -> 5 [] c = "6" -> 6 [] c = "7" -> 7
      [] c = "8" -> 8 [] c = "9" -> 9

isDigit(s, i) == i <= Len(s) /\ s[i] \in Digits

\* the number written by the n digits of s that start at position i
RECURSIVE atoi(_, _, _)
atoi(s, i, n) ==
    IF n = 0 THEN 0 ELSE 10 * atoi(s, i, n - 1) + digitVal(s[i + n - 1])

isLeap(year) == year % 4 = 0 /\ (year % 100 # 0 \/ year % 400 = 0)

daysIn(month, year) ==
    IF month = 2 THEN (IF isLeap(year) THEN 29 ELSE 28)
    ELSE IF month \in {4, 6, 9, 11} THEN 30 ELSE 31

RECURSIVE daysBeforeMonth(_, _)
daysBeforeMonth(month, year) ==
    IF month <= 1 THEN 0
    ELSE daysBeforeMonth(month - 1, year) + daysIn(month - 1, year)

daysBeforeYear(year) ==
    365 * (year - 1) + ((year - 1) \div 4) - ((year - 1) \div 100)
        + ((year - 1) \div 400)

\* time.Time{}: 1 January of year 1
zeroTime == [year |-> 1, month |-> 1, day |-> 1]

\* time.Date(year, month, day, 0, 0, 0, 0, time.UTC): a day past the end of
\* the month is normalised into the following month
timeDate(year, month, day) ==
    IF day <= daysIn(month, year)
    THEN [year |-> year, month |-> month, day |-> day]
    ELSE IF month = 12
         THEN [year |-> year + 1, month |-> 1, day |-> day - 31]
         ELSE [year |-> year, month |-> month + 1,
               day |-> day - daysIn(month, year)]

\* days since the day before 1 January of year 1
absDay(t) == daysBeforeYear(t.year) + daysBeforeMonth(t.month, t.year) + t.day

\* t.Before(u)
Before(t, u) == absDay(t) < absDay(u)

\* t.Sub(u).Hours()
SubHours(t, u) == (absDay(t) - absDay(u)) * 24

\* int(h / 24): the conversion truncates toward zero
intDiv24(h) == IF h >= 0 THEN h \div 24 ELSE -((-h) \div 24)

\* t.AddDate(1, 0, 0)
AddYear(t) == timeDate(t.year + 1, t.month, t.day)

\* time.Parse("02/01", s) and time.Parse("02/01/2006", s): two digits of
\* day, "/", two digits of month, and with a year "/" and four digits; the
\* month is 1..12 and the day exists in that month of that year (the year
\* of a yearless parse is 0, a leap year).
timeParse(s, hasYear) ==
    LET shape ==
            /\ Len(s) = (IF hasYear THEN 10 ELSE 5)
            /\ isDigit(s, 1) /\ isDigit(s, 2) /\ s[3] = "/"
            /\ isDigit(s, 4) /\ isDigit(s, 5)
            /\ hasYear => (s[6] = "/" /\ \A i \in 7..10 : isDigit(s, i))
        failed == [err |-> TRUE, date |-> zeroTime]
    IN  IF ~shape THEN failed
        ELSE LET day   == atoi(s, 1, 2)
                 month == atoi(s, 4, 2)
                 year  == IF hasYear THEN atoi(s, 7, 4) ELSE 0
             IN  IF month < 1 \/ month > 12 THEN failed
                 ELSE IF day < 1 \/ day > daysIn(month, year) THEN failed
                 ELSE [err |-> FALSE,
                       date |-> [year |-> year, month |-> month, day |-> day]]

-----------------------------------------------------------------------------
(* src/britto.go                                                           *)

nil == "nil"

parseDate(dateStr, t) ==
    IF Len(dateStr) = 0
    THEN [date |-> zeroTime, year |-> 0, err |-> "date not provided"]
    ELSE IF Len(dateStr) = 5
    THEN LET p == timeParse(dateStr, FALSE)
         IN  IF ~p.err
             THEN [date |-> timeDate(t.year, p.date.month, p.date.day),
                   year |-> t.year, err |-> nil]
             ELSE [date |-> p.date, year |-> 0, err |-> nil]
    ELSE IF Len(dateStr) = 10
    THEN LET p == timeParse(dateStr, TRUE)
         IN  IF ~p.err
             THEN [date |-> p.date, year |-> atoi(dateStr, 7, 4), err |-> nil]
             ELSE [date |-> p.date, year |-> 0, err |-> nil]
    ELSE [date |-> zeroTime, year |-> 0, err |-> "invalid date format"]

\* template.New("tmpl").Parse(tmplStr): a template text is the built-in
\* default, the empty text, or a text the template parser rejects
TemplateTexts == {"default", "", "broken"}

templateParses(tmplStr) == tmplStr # "broken"

\* the due phrase chosen by printReminder
duePhrase(daysUntilDate) ==
    IF daysUntilDate = 0 THEN <<"due_today">>
    ELSE IF daysUntilDate = 1 THEN <<"due_tomorrow">>
    ELSE <<"due_in", daysUntilDate>>

\* formatTemplate: the rendered line, or a fatal error
formatTemplate(tmplStr, which, name, ageOrDays, due, formattedDate) ==
    IF ~templateParses(tmplStr)
    THEN [fatal |-> TRUE, line |-> <<>>]
    ELSE [fatal |-> FALSE,
          line |-> [tmpl |-> which, text |-> tmplStr, Name |-> name,
                    AgeOrDays |-> ageOrDays, Due |-> due,
                    Date |-> formattedDate]]

\* the line breaks inside a template text: of the built-in texts only
\* Birthday0 has one, at its end
embeddedNewlines(which, tmplStr) ==
    IF tmplStr = "default" /\ which = "Birthday0" THEN 1 ELSE 0

\* fmt.Println(formattedMsg): the rendered text and a line break; a text
\* that itself ends in a line break leaves an empty line behind it
Println(line) ==
    IF embeddedNewlines(line.tmpl, line.text) = 1
    THEN <<line, [tmpl |-> "Blank", text |-> ""]>>
    ELSE <<line>>

\* the closure printReminder: the lines it prints, or a fatal error
printReminder(reminder, isBirthday, templateCfg, daysUntilDate, nextDate, year) ==
    LET due == duePhrase(daysUntilDate)
        age == nextDate.year - year
        f   == IF isBirthday
               THEN formatTemplate(
                        IF age = 0 THEN templateCfg.Birthday0
                                   ELSE templateCfg.Birthday,
                        IF age = 0 THEN "Birthday0" ELSE "Birthday",
                        reminder.Name, age, due,
                        [layout |-> "DateFormat", t |-> nextDate])
               ELSE formatTemplate(templateCfg.Reminder, "Reminder",
                        reminder.Name, daysUntilDate, due,
                        [layout |-> "DateFormatShort", t |-> nextDate])
    IN  IF f.fatal THEN [fatal |-> TRUE, lines |-> <<>>]
        ELSE [fatal |-> FALSE,
              lines |-> Println(f.line) \o
                        (IF reminder.Message # ""
                         THEN <<[tmpl |-> "Message", text |-> reminder.Message]>>
                         ELSE <<>>)]

\* the candidate of the loop over yearsAhead, and its offset
nextDate(t, date, yearsAhead) == timeDate(t.year + yearsAhead, date.month, date.day)

daysUntilDate(t, nd) == intDiv24(SubHours(nd, t))

candidateDue(t, date, yearsAhead, rangeDays) ==
    LET nd == nextDate(t, date, yearsAhead)
    IN  /\ ~Before(nd, t)
        /\ daysUntilDate(t, nd) <= rangeDays
        /\ daysUntilDate(t, nd) >= 0

\* rangeDays: the entry's override when it has one
rangeDays(reminder, defaultRange) ==
    IF reminder.ReminderRange # <<>> THEN reminder.ReminderRange[1]
    ELSE defaultRange

\* what printReminder prints for a candidate inside the window
printCandidate(reminder, t, isBirthday, templateCfg, date, year, yearsAhead) ==
    printReminder(reminder, isBirthday, templateCfg,
                  daysUntilDate(t, nextDate(t, date, yearsAhead)),
                  nextDate(t, date, yearsAhead), year)

\* processReminder with a loop that does not break: every candidate inside
\* the window is printed
processReminder_noBreak(reminder, t, isBirthday, defaultRange, templateCfg) ==
    LET p == parseDate(reminder.Date, t)
        r == rangeDays(reminder, defaultRange)
        silent == [fatal |-> FALSE, lines |-> <<>>, log |-> <<>>]
        none == [fatal |-> FALSE, lines |-> <<>>]
        pr0 == IF candidateDue(t, p.date, 0, r)
               THEN printCandidate(reminder, t, isBirthday, templateCfg,
                                   p.date, p.year, 0)
               ELSE none
        pr1 == IF candidateDue(t, p.date, 1, r)
               THEN printCandidate(reminder, t, isBirthday, templateCfg,
                                   p.date, p.year, 1)
               ELSE none
    IN  IF p.err # nil
        THEN [silent EXCEPT !.log = <<[Name |-> reminder.Name, err |-> p.err]>>]
        ELSE IF p.year > 0 /\ t.year > p.year
        THEN silent
        ELSE IF pr0.fatal THEN [fatal |-> TRUE, lines |-> <<>>, log |-> <<>>]
        ELSE [fatal |-> pr1.fatal, lines |-> pr0.lines \o pr1.lines,
              log |-> <<>>]

\* one iteration of the loop of processReminders
processReminder(reminder, t, isBirthday, defaultRange, templateCfg) ==
    LET p == parseDate(reminder.Date, t)
        silent == [fatal |-> FALSE, lines |-> <<>>, log |-> <<>>]
    IN  IF p.err # nil
        THEN [silent EXCEPT !.log = <<[Name |-> reminder.Name, err |-> p.err]>>]
        ELSE IF p.year > 0 /\ t.year > p.year
        THEN silent
        ELSE LET r == rangeDays(reminder, defaultRange)
                 hit == IF candidateDue(t, p.date, 0, r) THEN <<0>>
                        ELSE IF candidateDue(t, p.date, 1, r) THEN <<1>>
                        ELSE <<>>
             IN  IF hit = <<>> THEN silent
                 ELSE LET nd == nextDate(t, p.date, hit[1])
                          pr == printReminder(reminder, isBirthday, templateCfg,
                                              daysUntilDate(t, nd), nd, p.year)
                      IN  [fatal |-> pr.fatal, lines |-> pr.lines, log |-> <<>>]


-----------------------------------------------------------------------------
(* The inputs: the clock and the configuration file.                       *)

\* Reminder.Date as written in a configuration
DateTexts ==
    {
      <<"2", "5", "/", "1", "2", "/", "1", "9", "8", "5">>, \* README birthday with a birth year
      <<"2", "5", "/", "1", "2">>, \* same day of the year, yearless
      <<"1", "0", "/", "0", "5">>, \* README yearless birthday
      <<"1", "5", "/", "0", "7">>, \* README event
      <<"0", "2", "/", "0", "1">>, \* just after the year boundary
      <<"3", "1", "/", "1", "2">>, \* last day of the year
      <<"0", "1", "/", "0", "1">>, \* first day of the year
      <<"2", "9", "/", "0", "2">>, \* leap day, yearless
      <<"2", "9", "/", "0", "2", "/", "2", "0", "2", "4">>, \* leap day of a leap year
      <<"2", "0", "/", "1", "2", "/", "2", "0", "2", "4">>, \* full date in 2024
      <<"0", "2", "/", "0", "1", "/", "2", "0", "2", "4">>, \* full date early in 2024
      <<"2", "5", "/", "1", "2", "/", "2", "0", "2", "3">>, \* full date late in 2023
      <<"2", "5", "/", "1", "2", "/", "2", "0", "3", "0">>, \* year after every now
      <<"3", "1", "/", "0", "4">>, \* day 31 of a 30-day month
      <<"3", "0", "/", "0", "2">>, \* no such day in February
      <<"1", "5", "/", "1", "3">>, \* month 13
      <<"0", "0", "/", "0", "1">>, \* day 0
      <<"a", "b", "/", "c", "d">>, \* no digits
      <<"2", "5", "-", "1", "2">>, \* wrong separator
      <<"3", "1", "/", "0", "4", "/", "2", "0", "2", "4">>, \* day 31 of a 30-day month, with a year
      <<"2", "9", "/", "0", "2", "/", "2", "0", "2", "3">>, \* leap day of a common year
      <<"2", "5", "/", "1", "2", "/", "2", "0", "x", "4">>, \* year with a letter
      <<"1", "2", "/", "3", "1", "/", "2", "0", "2", "4">>, \* month 31: the date of defaultConfig
      <<>>, \* empty
      <<"1", "/", "1">>, \* neither 5 nor 10 characters
      <<"2", "5", "/", "1", "2", "/", "8", "5">>  \* two-digit year
    }

\* the (month, day) of the days from which now is drawn
NowDays ==
    { <<12, 5>>, <<12, 14>>, <<12, 15>>, <<12, 20>>, <<12, 25>>, <<12, 26>>,
      <<12, 28>>, <<12, 31>>, <<1, 1>>, <<1, 2>>, <<2, 28>>, <<3, 1>>,
      <<7, 10>> }

\* time.Now().Truncate(24 * time.Hour)
Nows ==
    { [year |-> y, month |-> md[1], day |-> md[2]] :
          y \in 2023..LastNowYear, md \in NowDays }

\* Reminder.ReminderRange: absent, or a number of days
Overrides == { <<>>, <<0>>, <<5>>, <<25>>, <<66>>, <<400>> }

Messages == { "", "note" }

\* [ReminderRange] of the README's britto.toml
ReadmeRange == [Birthdays |-> 10, Events |-> 15]

\* [template]: every text is the built-in default
defaultTemplate ==
    [Birthday0 |-> "default", Birthday |-> "default", Reminder |-> "default"]

\* [template] with at most one text that does not parse
Templates ==
    { defaultTemplate } \cup
    { [defaultTemplate EXCEPT ![k] = "broken"] :
          k \in {"Birthday0", "Birthday", "Reminder"} }

\* the zero value of TemplateConfig: every text is empty
zeroTemplate ==
    [Birthday0 |-> "", Birthday |-> "", Reminder |-> ""]

Entry(date, message, override) ==
    [Name |-> <<>>, Date |-> date, Message |-> message,
     ReminderRange |-> override, OneTimeEvent |-> FALSE]

\* the entries of a table of the configuration get their names by position
Named(table, entries) ==
    [i \in 1..Len(entries) |-> [entries[i] EXCEPT !.Name = <<table, i>>]]

Config(birthdays, reminders, template) ==
    [Birthdays |-> Named("Birthday", birthdays),
     Reminders |-> Named("Reminder", reminders),
     ReminderRange |-> ReadmeRange, Template |-> template]

\* a configuration with one entry, a birthday or an event
EntryConfigs ==
    LET E == { Entry(d, m, o) : d \in DateTexts, m \in Messages, o \in Overrides }
    IN  { Config(<<e>>, <<>>, defaultTemplate) : e \in E } \cup
        { Config(<<>>, <<e>>, defaultTemplate) : e \in E }

\* the entries from which a batch is drawn: two that can fall in the window
\* of a December run, one that cannot, one with a calendar-invalid text and
\* one whose text has neither accepted length
BatchEntries ==
    { Entry(<<"2", "5", "/", "1", "2">>, "", <<>>),
      Entry(<<"0", "2", "/", "0", "1">>, "note", <<>>),
      Entry(<<"1", "5", "/", "0", "7">>, "", <<>>),
      Entry(<<"3", "1", "/", "0", "4">>, "note", <<>>),
      Entry(<<"1", "/", "1">>, "", <<>>) }

SeqsUpTo(S, n) == UNION { [1..k -> S] : k \in 0..n }

\* a configuration with up to MaxEntries entries, birthdays and events
\* together, and any of the templates
BatchConfigs ==
    UNION { { Config(b, r, t) :
                  r \in SeqsUpTo(BatchEntries, MaxEntries - Len(b)),
                  t \in Templates } :
            b \in SeqsUpTo(BatchEntries, MaxEntries) }

\* the configuration file from which a Config was decoded, its [template]
\* section present
FileOf(c) ==
    [Birthday |-> c.Birthdays, Reminder |-> c.Reminders,
     ReminderRange |-> c.ReminderRange, template |-> <<c.Template>>]

\* the files of one entry
EntryFiles == { FileOf(c) : c \in EntryConfigs }

\* the files of a batch, and the same files without a [template] section
\* (as the README's example britto.toml)
BatchFiles ==
    { FileOf(c) : c \in BatchConfigs } \cup
    { [FileOf(c) EXCEPT !.template = <<>>] :
          c \in { b \in BatchConfigs : b.Template = defaultTemplate } }

\* loadConfig: toml.DecodeReader fills a zero Config with what the file has
loadConfig(f) ==
    [Birthdays |-> f.Birthday, Reminders |-> f.Reminder,
     ReminderRange |-> f.ReminderRange,
     Template |-> IF f.template = <<>> THEN zeroTemplate ELSE f.template[1]]

BatchNows ==
    { [year |-> 2024, month |-> 12, day |-> 20],
      [year |-> 2024, month |-> 12, day |-> 28] }

-----------------------------------------------------------------------------
(* main of src/britto.go: processReminders over the birthdays, then over   *)
(* the events.  pc is the call main is in, idx the entry its loop is at.   *)

\* src/britto.go has no date patterns to convert
NoConv == [DateFormat |-> <<>>, DateFormatShort |-> <<>>, run |-> <<>>]

Init ==
    /\ \/ /\ now \in Nows
          /\ file \in EntryFiles
       \/ /\ now \in BatchNows
          /\ file \in BatchFiles
    /\ config = loadConfig(file)
    /\ pc = "birthdays"
    /\ idx = 1
    /\ out = <<>>
    /\ logs = <<>>
    /\ conv = NoConv

\* Iterate with the new lines put before the earlier output
Iterate_prepends(reminders, isBirthday, defaultRange) ==
    /\ idx <= Len(reminders)
    /\ LET r == processReminder(reminders[idx], now, isBirthday, defaultRange,
                                config.Template)
       IN  /\ out' = r.lines \o out
           /\ logs' = logs \o r.log
           /\ IF r.fatal
              THEN pc' = "fatal" /\ idx' = idx
              ELSE pc' = pc /\ idx' = idx + 1
    /\ UNCHANGED <<now, file, config, conv>>

\* one iteration of the loop of processReminders; log.Fatalf ends the process
Iterate(reminders, isBirthday, defaultRange) ==
    /\ idx <= Len(reminders)
    /\ LET r == processReminder(reminders[idx], now, isBirthday, defaultRange,
                                config.Template)
       IN  /\ out' = out \o r.lines
           /\ logs' = logs \o r.log
           /\ IF r.fatal
              THEN pc' = "fatal" /\ idx' = idx
              ELSE pc' = pc /\ idx' = idx + 1
    /\ UNCHANGED <<now, file, config, conv>>

ProcessBirthday ==
    /\ pc = "birthdays"
    /\ Iterate(config.Birthdays, TRUE, config.ReminderRange.Birthdays)

ProcessEvent ==
    /\ pc = "reminders"
    /\ Iterate(config.Reminders, FALSE, config.ReminderRange.Events)

\* the first call returns and main makes the second
BirthdaysDone ==
    /\ pc = "birthdays"
    /\ idx > Len(config.Birthdays)
    /\ pc' = "reminders"
    /\ idx' = 1
    /\ UNCHANGED <<now, file, config, out, logs, conv>>

\* the second call returns and main ends
RemindersDone ==
    /\ pc = "reminders"
    /\ idx > Len(config.Reminders)
    /\ pc' = "done"
    /\ UNCHANGED <<now, file, config, idx, out, logs, conv>>

Next == ProcessBirthday \/ ProcessEvent \/ BirthdaysDone \/ RemindersDone

Spec == Init /\ [][Next]_vars

-----------------------------------------------------------------------------
(* src/.britto-ng.go                                                       *)

\* parseDate without the check of OneTimeEvent
parseDate_ng_anyLength(dateStr, t, oneTimeEvent) == parseDate(dateStr, t)

\* parseDate of .britto-ng.go: the same two branches, then the one-time check
parseDate_ng(dateStr, t, oneTimeEvent) ==
    IF Len(dateStr) = 0
    THEN [date |-> zeroTime, year |-> 0, err |-> "date not provided"]
    ELSE IF Len(dateStr) # 5 /\ Len(dateStr) # 10
    THEN [date |-> zeroTime, year |-> 0, err |-> "invalid date format"]
    ELSE LET p == timeParse(dateStr, Len(dateStr) = 10)
             date == IF p.err THEN p.date
                     ELSE IF Len(dateStr) = 5
                     THEN timeDate(t.year, p.date.month, p.date.day)
                     ELSE p.date
             year == IF p.err THEN 0
                     ELSE IF Len(dateStr) = 5 THEN t.year
                     ELSE atoi(dateStr, 7, 4)
         IN  IF oneTimeEvent /\ Len(dateStr) # 10
             THEN [date |-> zeroTime, year |-> 0,
                   err |-> "one-time event requires year specification"]
             ELSE [date |-> date, year |-> year, err |-> nil]

\* the line of one of the Printf calls
printf_ng(which, reminder, ageOrDays, daysUntil, date, layout, msg) ==
    [tmpl |-> which, text |-> msg, Name |-> reminder.Name,
     AgeOrDays |-> ageOrDays, Due |-> duePhrase(daysUntil),
     Date |-> [layout |-> layout, t |-> date]]

\* nextDate: this year's occurrence, rolled to next year when it has passed
nextDate_ng(t, date) ==
    IF Before(timeDate(t.year, date.month, date.day), t)
    THEN AddYear(timeDate(t.year, date.month, date.day))
    ELSE timeDate(t.year, date.month, date.day)

\* the first block: the occurrence is inside the range
firstBlock_ng(reminder, t, msg, isBirthday, rangeDays_, date, year, d) ==
    IF d <= rangeDays_ /\ d >= 0
    THEN IF isBirthday
         THEN IF t.year - year = 0
              THEN <<printf_ng("Birthday0", reminder, t.year - year, d,
                               date, "02/01", "")>>
              ELSE <<printf_ng("Birthday", reminder, t.year - year, d,
                               date, "02/01/2006", "")>>
         ELSE <<printf_ng("Reminder", reminder, d, d, date, "02/01", msg)>>
    ELSE <<>>

\* the second block: daysUntilDate < 0, so the date is rolled once more
secondBlock_ng(reminder, t, msg, isBirthday, rangeDays_, date, year, d, d2) ==
    IF d < 0 /\ d2 <= rangeDays_ /\ d2 >= 0
    THEN IF isBirthday
         THEN <<printf_ng("Birthday", reminder, t.year + 1 - year, d2,
                          date, "02/01/2006", "")>>
         ELSE <<printf_ng("Reminder", reminder, d2, d2, date, "02/01", msg)>>
    ELSE <<>>

\* one iteration of the loop of processReminders of .britto-ng.go
processReminder_ng(reminder, t, defaultMsg, isBirthday, rangeDays_) ==
    LET p == parseDate_ng(reminder.Date, t, reminder.OneTimeEvent)
        msg == IF reminder.Message = "" THEN defaultMsg ELSE reminder.Message
    IN  IF p.err # nil
        THEN [lines |-> <<>>, log |-> <<[Name |-> reminder.Name, err |-> p.err]>>]
        ELSE [lines |->
                  firstBlock_ng(reminder, t, msg, isBirthday, rangeDays_,
                      p.date, p.year,
                      intDiv24(SubHours(nextDate_ng(t, p.date), t)))
                  \o
                  secondBlock_ng(reminder, t, msg, isBirthday, rangeDays_,
                      p.date, p.year,
                      intDiv24(SubHours(nextDate_ng(t, p.date), t)),
                      intDiv24(SubHours(AddYear(nextDate_ng(t, p.date)), t))),
              log |-> <<>>]

\* the entries of a run of .britto-ng.go: the README's one-time event, the
\* same day without a year, with and without the flag, and a text of
\* neither accepted length
Entry_ng(date, oneTime) ==
    [Name |-> <<>>, Date |-> date, Message |-> "",
     ReminderRange |-> <<>>, OneTimeEvent |-> oneTime]

NgEntries ==
    { Entry_ng(<<"2", "0", "/", "0", "7", "/", "2", "0", "2", "4">>, TRUE),
      Entry_ng(<<"2", "0", "/", "0", "7">>, TRUE),
      Entry_ng(<<"2", "0", "/", "0", "7">>, FALSE),
      Entry_ng(<<"3", "1", "/", "0", "4">>, TRUE),
      Entry_ng(<<"1", "/", "1">>, FALSE) }

NgConfigs ==
    UNION { { Config(b, r, defaultTemplate) :
                  r \in SeqsUpTo(NgEntries, MaxEntries - Len(b)) } :
            b \in SeqsUpTo(NgEntries, MaxEntries) }

NgNows ==
    { [year |-> 2024, month |-> 7, day |-> 10],
      [year |-> 2024, month |-> 7, day |-> 20],
      [year |-> 2024, month |-> 7, day |-> 21],
      [year |-> 2025, month |-> 7, day |-> 15] }

Init_ng ==
    /\ now \in NgNows
    /\ config \in NgConfigs
    /\ file = FileOf(config)
    /\ pc = "birthdays"
    /\ idx = 1
    /\ out = <<>>
    /\ logs = <<>>
    /\ conv = NoConv

Iterate_ng(reminders, defaultMsg, isBirthday, rangeDays_) ==
    /\ idx <= Len(reminders)
    /\ LET r == processReminder_ng(reminders[idx], now, defaultMsg, isBirthday,
                                   rangeDays_)
       IN  /\ out' = out \o r.lines
           /\ logs' = logs \o r.log
    /\ idx' = idx + 1
    /\ UNCHANGED <<now, file, config, pc, conv>>

ProcessBirthday_ng ==
    /\ pc = "birthdays"
    /\ Iterate_ng(config.Birthdays, "Birthday reminder", TRUE,
                  config.ReminderRange.Birthdays)

ProcessEvent_ng ==
    /\ pc = "reminders"
    /\ Iterate_ng(config.Reminders, "Reminder", FALSE,
                  config.ReminderRange.Events)

\* main of .britto-ng.go makes the same two calls as main of britto.go
Next_ng ==
    ProcessBirthday_ng \/ ProcessEvent_ng \/ BirthdaysDone \/ RemindersDone

Spec_ng == Init_ng /\ [][Next_ng]_vars

-----------------------------------------------------------------------------
(* src/unnamed/part_000: main converts the two configured date patterns    *)
(* into Go layouts before it processes the reminders.  conv holds the      *)
(* configured patterns and, for each of two runs of the program on that    *)
(* configuration, the layouts as far as the run has converted them.        *)

\* strings.HasPrefix(s[i:], old), positions counted from 1
hasAt(s, i, old) ==
    /\ i + Len(old) - 1 <= Len(s)
    /\ \A k \in 1..Len(old) : s[i + k - 1] = old[k]

\* strings.ReplaceAll(s, old, new) from position i on: the occurrences are
\* taken from left to right and do not overlap
RECURSIVE replaceFrom(_, _, _, _)
replaceFrom(s, i, old, new) ==
    IF i > Len(s) THEN <<>>
    ELSE IF hasAt(s, i, old) THEN new \o replaceFrom(s, i + Len(old), old, new)
    ELSE <<s[i]>> \o replaceFrom(s, i + 1, old, new)

ReplaceAll(s, old, new) == replaceFrom(s, 1, old, new)

\* the map replacements
replacements ==
    << [key |-> <<"M", "M">>, value |-> <<"0", "1">>],
       [key |-> <<"D", "D">>, value |-> <<"0", "2">>],
       [key |-> <<"Y", "Y", "Y", "Y">>, value |-> <<"2", "0", "0", "6">>],
       [key |-> <<"Y", "Y">>, value |-> <<"0", "6">>] >>

\* the orders in which a range over the map can visit its four keys: Go
\* leaves the iteration order of a map unspecified
IterationOrders ==
    { o \in [1..Len(replacements) -> 1..Len(replacements)] :
          \A i, j \in DOMAIN o : i # j => o[i] # o[j] }

\* the loop of convertDateFormat, the keys visited in the given order
RECURSIVE convertLoop(_, _, _)
convertLoop(dateStr, order, n) ==
    IF n = 0 THEN dateStr
    ELSE ReplaceAll(convertLoop(dateStr, order, n - 1),
                    replacements[order[n]].key, replacements[order[n]].value)

convertDateFormat(dateStr, order) == convertLoop(dateStr, order, Len(order))

\* DateFormat of a configuration: the default "DD/MM/YYYY" and other patterns
DateFormats ==
    { <<"D", "D", "/", "M", "M", "/", "Y", "Y", "Y", "Y">>,
      <<"M", "M", "/", "D", "D", "/", "Y", "Y", "Y", "Y">>,
      <<"Y", "Y", "Y", "Y", "-", "M", "M", "-", "D", "D">>,
      <<"D", "D", ".", "M", "M", ".", "Y", "Y">>,
      <<"D", "D", "/", "M", "M">> }

\* DateFormatShort of a configuration: the default "DD/MM" and other patterns
DateFormatsShort ==
    { <<"D", "D", "/", "M", "M">>,
      <<"M", "M", "/", "D", "D">>,
      <<"M", "M", "/", "Y", "Y">>,
      <<"M", "M", "-", "Y", "Y", "Y", "Y">> }

Runs == {1, 2}

Init_conv ==
    /\ \E f \in DateFormats, fs \in DateFormatsShort :
           conv = [DateFormat |-> f, DateFormatShort |-> fs,
                   run |-> [r \in Runs |->
                               [step |-> 0, DateFormat |-> f,
                                DateFormatShort |-> fs]]]
    /\ now \in BatchNows
    /\ config = Config(<<>>, <<>>, defaultTemplate)
    /\ file = FileOf(config)
    /\ pc = "convert"
    /\ idx = 1
    /\ out = <<>>
    /\ logs = <<>>

\* config.Template.DateFormat = convertDateFormat(config.Template.DateFormat)
ConvertDateFormat(r) ==
    /\ pc = "convert"
    /\ conv.run[r].step = 0
    /\ \E order \in IterationOrders :
           conv' = [conv EXCEPT
                        !.run[r].DateFormat = convertDateFormat(@, order),
                        !.run[r].step = 1]
    /\ UNCHANGED <<now, file, config, pc, idx, out, logs>>

\* config.Template.DateFormatShort = convertDateFormat(config.Template.DateFormatShort)
ConvertDateFormatShort(r) ==
    /\ pc = "convert"
    /\ conv.run[r].step = 1
    /\ \E order \in IterationOrders :
           conv' = [conv EXCEPT
                        !.run[r].DateFormatShort = convertDateFormat(@, order),
                        !.run[r].step = 2]
    /\ UNCHANGED <<now, file, config, pc, idx, out, logs>>

Next_conv ==
    \E r \in Runs : ConvertDateFormat(r) \/ ConvertDateFormatShort(r)

Spec_conv == Init_conv /\ [][Next_conv]_vars

-----------------------------------------------------------------------------
(* src/unnamed/part_000: parseDate and processReminders.  main reads       *)
(* time.Now() and does not truncate it, so now carries a time of day (a    *)
(* field hour); every date the program builds is still a midnight.  The    *)
(* two convertDateFormat calls that main makes first change only the       *)
(* layouts, which a rendered date carries by name.                         *)

\* the hour of the day of a time; a time without the field is a midnight
hourOf(t) == IF "hour" \in DOMAIN t THEN t.hour ELSE 0

\* hours since the midnight before 1 January of year 1
absHour(t) == absDay(t) * 24 + hourOf(t)

\* t.Before(u), to the hour
Before_p0(t, u) == absHour(t) < absHour(u)

\* t.Sub(u).Hours(), to the hour
SubHours_p0(t, u) == absHour(t) - absHour(u)

parseDate_p0(dateStr, t) ==
    IF Len(dateStr) = 0
    THEN [date |-> zeroTime, year |-> 0, err |-> "date not provided"]
    ELSE IF Len(dateStr) = 5
    THEN LET p == timeParse(dateStr, FALSE)
             d == timeDate(t.year, p.date.month, p.date.day)
         IN  IF p.err THEN [date |-> p.date, year |-> 0, err |-> nil]
             ELSE IF Before_p0(d, t)
             THEN [date |-> timeDate(t.year + 1, d.month, d.day),
                   year |-> t.year + 1, err |-> nil]
             ELSE [date |-> d, year |-> t.year, err |-> nil]
    ELSE IF Len(dateStr) = 10
    THEN LET p == timeParse(dateStr, TRUE)
         IN  IF p.err THEN [date |-> p.date, year |-> 0, err |-> nil]
             ELSE [date |-> p.date, year |-> p.date.year, err |-> nil]
    ELSE [date |-> zeroTime, year |-> 0, err |-> "invalid date format"]

\* formatTemplate of part_000: the message is one more field of the line
formatTemplate_p0(tmplStr, which, name, ageOrDays, due, formattedDate, message) ==
    IF ~templateParses(tmplStr)
    THEN [fatal |-> TRUE, line |-> <<>>]
    ELSE [fatal |-> FALSE,
          line |-> [tmpl |-> which, text |-> tmplStr, Name |-> name,
                    AgeOrDays |-> ageOrDays, Due |-> due,
                    Date |-> formattedDate, Message |-> message]]

\* fmt.Println(formattedMsg): every built-in text of part_000 ends in a line
\* break and the message, so the message, or an empty line, follows
Println_p0(line) ==
    IF line.text # "default" THEN <<line>>
    ELSE IF line.Message # ""
    THEN <<line, [tmpl |-> "Message", text |-> line.Message]>>
    ELSE <<line, [tmpl |-> "Blank", text |-> ""]>>

\* the closure printReminder of part_000
printReminder_p0(reminder, isBirthday, templateCfg, daysUntilDate_, nextDate_, year) ==
    LET due == duePhrase(daysUntilDate_)
        age == nextDate_.year - year
        f   == IF isBirthday
               THEN formatTemplate_p0(
                        IF age = 0 THEN templateCfg.Birthday0
                                   ELSE templateCfg.Birthday,
                        IF age = 0 THEN "Birthday0" ELSE "Birthday",
                        reminder.Name, age, due,
                        [layout |-> "DateFormat", t |-> nextDate_],
                        reminder.Message)
               ELSE formatTemplate_p0(templateCfg.Reminder, "Reminder",
                        reminder.Name, daysUntilDate_, due,
                        [layout |-> "DateFormat", t |-> nextDate_],
                        reminder.Message)
    IN  IF f.fatal THEN [fatal |-> TRUE, lines |-> <<>>]
        ELSE [fatal |-> FALSE, lines |-> Println_p0(f.line)]

daysUntilDate_p0(t, nd) == intDiv24(SubHours_p0(nd, t))

\* the candidate loop of part_000 has no nextDate.Before(now) test
candidateDue_p0(t, date, yearsAhead, rangeDays_) ==
    /\ daysUntilDate_p0(t, nextDate(t, date, yearsAhead)) <= rangeDays_
    /\ daysUntilDate_p0(t, nextDate(t, date, yearsAhead)) >= 0

\* one iteration of the loop of processReminders of part_000
processReminder_p0(reminder, t, isBirthday, defaultRange, templateCfg) ==
    LET p == parseDate_p0(reminder.Date, t)
        r == rangeDays(reminder, defaultRange)
        silent == [fatal |-> FALSE, lines |-> <<>>, log |-> <<>>]
        hit == IF candidateDue_p0(t, p.date, 0, r) THEN <<0>>
               ELSE IF candidateDue_p0(t, p.date, 1, r) THEN <<1>>
               ELSE <<>>
    IN  IF p.err # nil
        THEN [silent EXCEPT !.log = <<[Name |-> reminder.Name, err |-> p.err]>>]
        ELSE IF hit = <<>> THEN silent
        ELSE [log |-> <<>>] @@
             printReminder_p0(reminder, isBirthday, templateCfg,
                 daysUntilDate_p0(t, nextDate(t, p.date, hit[1])),
                 nextDate(t, p.date, hit[1]), p.year)

\* the hours of the day from which time.Now() is drawn
NowHours == {0, 15}

\* time.Now()
Nows_p0 ==
    { [year |-> t.year, month |-> t.month, day |-> t.day, hour |-> h] :
          t \in Nows, h \in NowHours }

Init_p0 ==
    /\ now \in Nows_p0
    /\ file \in EntryFiles
    /\ config = loadConfig(file)
    /\ pc = "birthdays"
    /\ idx = 1
    /\ out = <<>>
    /\ logs = <<>>
    /\ conv = NoConv

Iterate_p0(reminders, isBirthday, defaultRange) ==
    /\ idx <= Len(reminders)
    /\ LET r == processReminder_p0(reminders[idx], now, isBirthday,
                                   defaultRange, config.Template)
       IN  /\ out' = out \o r.lines
           /\ logs' = logs \o r.log
           /\ IF r.fatal
              THEN pc' = "fatal" /\ idx' = idx
              ELSE pc' = pc /\ idx' = idx + 1
    /\ UNCHANGED <<now, file, config, conv>>

ProcessBirthday_p0 ==
    /\ pc = "birthdays"
    /\ Iterate_p0(config.Birthdays, TRUE, config.ReminderRange.Birthdays)

ProcessEvent_p0 ==
    /\ pc = "reminders"
    /\ Iterate_p0(config.Reminders, FALSE, config.ReminderRange.Events)

\* main of part_000 makes the same two calls as main of britto.go
Next_p0 ==
    ProcessBirthday_p0 \/ ProcessEvent_p0 \/ BirthdaysDone \/ RemindersDone

Spec_p0 == Init_p0 /\ [][Next_p0]_vars

-----------------------------------------------------------------------------
(* What the claims speak of, stated from the configuration and the output. *)

AllEntries ==
    { <<TRUE, config.Birthdays[i]>> : i \in DOMAIN config.Birthdays } \cup
    { <<FALSE, config.Reminders[i]>> : i \in DOMAIN config.Reminders }

BirthdayEntries == { config.Birthdays[i] : i \in DOMAIN config.Birthdays }

\* the notifications (primary lines) printed for the entry of that name
NotesOf(name) ==
    SelectSeq(out, LAMBDA l : l.tmpl \notin {"Message", "Blank"} /\ l.Name = name)

LoggedFor(name) == \E k \in DOMAIN logs : logs[k].Name = name

\* the day offset a notification announces
DueDays(due) ==
    IF due = <<"due_today">> THEN 0
    ELSE IF due = <<"due_tomorrow">> THEN 1 ELSE due[2]

\* a calendar-valid DD/MM (29/02 included) or DD/MM/YYYY
ValidYearless(text) == Len(text) = 5 /\ ~timeParse(text, FALSE).err
ValidWithYear(text) == Len(text) = 10 /\ ~timeParse(text, TRUE).err

TextDay(text) == atoi(text, 1, 2)
TextMonth(text) == atoi(text, 4, 2)
TextYear(text) == atoi(text, 7, 4)

\* the occurrence of a month/day in a year: 29 February falls on 1 March
\* in a year that is not a leap year
Occurrence(month, day, year) ==
    IF month = 2 /\ day = 29 /\ ~isLeap(year)
    THEN [year |-> year, month |-> 3, day |-> 1]
    ELSE [year |-> year, month |-> month, day |-> day]

\* the earliest of the occurrences in now's year and the year after that is
\* not strictly before now
NextOccurrence(text) ==
    LET a == Occurrence(TextMonth(text), TextDay(text), now.year)
        b == Occurrence(TextMonth(text), TextDay(text), now.year + 1)
    IN  IF absDay(a) >= absDay(now) THEN a ELSE b

OffsetOf(text) == absDay(NextOccurrence(text)) - absDay(now)

\* the window of an entry: its override when present, else its category's
EffectiveRange(isBirthday, e) ==
    IF e.ReminderRange # <<>> THEN e.ReminderRange[1]
    ELSE IF isBirthday THEN config.ReminderRange.Birthdays
    ELSE config.ReminderRange.Events

\* C1: a birthday with a valid DD/MM/YYYY whose year is before now's year
\* and whose next occurrence is inside the window gets exactly one
\* notification, with the aged template and age = occurrence year - YYYY.
C1_AgedBirthdayAnnounced ==
    pc = "done" =>
        \A e \in BirthdayEntries :
            ( /\ ValidWithYear(e.Date)
              /\ TextYear(e.Date) < now.year
              /\ OffsetOf(e.Date) <= EffectiveRange(TRUE, e) )
            => /\ Len(NotesOf(e.Name)) = 1
               /\ NotesOf(e.Name)[1].tmpl = "Birthday"
               /\ NotesOf(e.Name)[1].AgeOrDays =
                      NextOccurrence(e.Date).year - TextYear(e.Date)

\* C2: a date text of length 5 or 10 that is not a calendar-valid DD/MM or
\* DD/MM/YYYY makes parseDate return an error; the entry gets a diagnostic
\* and no notification.
C2_InvalidDateRejected ==
    pc = "done" =>
        \A x \in AllEntries :
            LET e == x[2]
            IN  ( /\ Len(e.Date) \in {5, 10}
                  /\ ~ValidYearless(e.Date) /\ ~ValidWithYear(e.Date) )
                => /\ parseDate(e.Date, now).err # nil
                   /\ LoggedFor(e.Name)
                   /\ NotesOf(e.Name) = <<>>

\* C3: an entry with a valid yearless date is announced iff the offset of
\* its next occurrence is between 0 and its effective range.
C3_AnnouncedIffInWindow ==
    pc = "done" =>
        \A x \in AllEntries :
            LET e == x[2]
            IN  ValidYearless(e.Date) =>
                    ( NotesOf(e.Name) # <<>>
                      <=> ( /\ 0 <= OffsetOf(e.Date)
                            /\ OffsetOf(e.Date) <= EffectiveRange(x[1], e) ) )

\* C4: a birthday with a valid yearless date is only ever announced with
\* the zero-age template.
C4_YearlessBirthdayZeroAge ==
    \A e \in BirthdayEntries :
        ValidYearless(e.Date) =>
            \A k \in DOMAIN NotesOf(e.Name) :
                NotesOf(e.Name)[k].tmpl = "Birthday0"

\* C5: the occurrence announced for a valid yearless date is the earliest of
\* its month/day in now's year and in the year after that is not before
\* now, and the announced offset is that occurrence's, never negative.
C5_NextOccurrenceAnnounced ==
    \A x \in AllEntries :
        LET e == x[2]
        IN  ValidYearless(e.Date) =>
                \A k \in DOMAIN NotesOf(e.Name) :
                    LET n == NotesOf(e.Name)[k]
                    IN  /\ n.Date.t = NextOccurrence(e.Date)
                        /\ DueDays(n.Due) = OffsetOf(e.Date)
                        /\ DueDays(n.Due) >= 0

LeapDayText(text) == TextMonth(text) = 2 /\ TextDay(text) = 29

\* C3 holds of every valid yearless date other than 29/02.
C3_ExceptLeapDay ==
    pc = "done" =>
        \A x \in AllEntries :
            LET e == x[2]
            IN  (ValidYearless(e.Date) /\ ~LeapDayText(e.Date)) =>
                    ( NotesOf(e.Name) # <<>>
                      <=> ( /\ 0 <= OffsetOf(e.Date)
                            /\ OffsetOf(e.Date) <= EffectiveRange(x[1], e) ) )

\* C5 holds of every valid yearless date other than 29/02.
C5_ExceptLeapDay ==
    \A x \in AllEntries :
        LET e == x[2]
        IN  (ValidYearless(e.Date) /\ ~LeapDayText(e.Date)) =>
                \A k \in DOMAIN NotesOf(e.Name) :
                    LET n == NotesOf(e.Name)[k]
                    IN  /\ n.Date.t = NextOccurrence(e.Date)
                        /\ DueDays(n.Due) = OffsetOf(e.Date)
                        /\ DueDays(n.Due) >= 0


BrokenTemplate ==
    \E k \in {"Birthday0", "Birthday", "Reminder"} : ~templateParses(config.Template[k])

\* C8: with an unparseable template in the configuration, the run has
\* printed no line when it aborts, whatever entries came before the one
\* that needs the template.
C8_NoOutputBeforeAbort ==
    BrokenTemplate => (pc = "fatal" => out = <<>>)

\* C8, the other half: with an unparseable template in the configuration
\* the run never ends normally.
C8_AlwaysAborts ==
    BrokenTemplate => pc # "done"

\* the output of an entry taken alone; nothing when its date does not resolve
OwnOutput(isBirthday, e) ==
    IF parseDate(e.Date, now).err # nil THEN <<>>
    ELSE processReminder(e, now, isBirthday,
                         IF isBirthday THEN config.ReminderRange.Birthdays
                         ELSE config.ReminderRange.Events,
                         config.Template).lines

RECURSIVE OwnOutputs(_, _, _)
OwnOutputs(isBirthday, entries, n) ==
    IF n = 0 THEN <<>>
    ELSE OwnOutputs(isBirthday, entries, n - 1) \o OwnOutput(isBirthday, entries[n])

ExpectedOutput ==
    OwnOutputs(TRUE, config.Birthdays, Len(config.Birthdays)) \o
    OwnOutputs(FALSE, config.Reminders, Len(config.Reminders))

IsPrefix(s, t) == Len(s) <= Len(t) /\ SubSeq(t, 1, Len(s)) = s

OneTimeEntries == { x \in AllEntries : x[2].OneTimeEvent }

TextDate(text) ==
    [year |-> TextYear(text), month |-> TextMonth(text), day |-> TextDay(text)]

\* C6: a one-time entry dated DD/MM/YYYY is announced only for the
\* occurrence on that date in year YYYY: the day a notification announces
\* (now plus the announced offset) is that date.
C6_OneTimeNeverRepeats ==
    \A x \in OneTimeEntries :
        LET e == x[2]
        IN  ValidWithYear(e.Date) =>
                \A k \in DOMAIN NotesOf(e.Name) :
                    absDay(now) + DueDays(NotesOf(e.Name)[k].Due)
                        = absDay(TextDate(e.Date))

\* the entries before the one main's loop is at
Processed(isBirthday, i) ==
    IF isBirthday THEN pc # "birthdays" \/ i < idx
    ELSE pc = "done" \/ (pc = "reminders" /\ i < idx)

\* the output of an entry of .britto-ng.go taken alone
OwnOutput_ng(isBirthday, e) ==
    processReminder_ng(e, now,
        IF isBirthday THEN "Birthday reminder" ELSE "Reminder", isBirthday,
        IF isBirthday THEN config.ReminderRange.Birthdays
        ELSE config.ReminderRange.Events).lines

\* C7: parseDate of .britto-ng.go returns the missing-year error for every
\* 5-character text of a one-time entry; the entry is never announced, it gets a
\* diagnostic once the loop has passed it, and the run goes on: every entry
\* behind it is processed and has its own output when the run ends.
C7_OneTimeNeedsYear ==
    /\ \A d \in DateTexts \cup { x[2].Date : x \in AllEntries } :
           Len(d) = 5 => parseDate_ng(d, now, TRUE).err
                             = "one-time event requires year specification"
    /\ pc # "fatal"
    /\ \A i \in DOMAIN config.Birthdays :
           LET e == config.Birthdays[i]
           IN  IF e.OneTimeEvent /\ Len(e.Date) = 5
               THEN /\ NotesOf(e.Name) = <<>>
                    /\ Processed(TRUE, i) => LoggedFor(e.Name)
               ELSE pc = "done" => NotesOf(e.Name) = OwnOutput_ng(TRUE, e)
    /\ \A i \in DOMAIN config.Reminders :
           LET e == config.Reminders[i]
           IN  IF e.OneTimeEvent /\ Len(e.Date) = 5
               THEN /\ NotesOf(e.Name) = <<>>
                    /\ Processed(FALSE, i) => LoggedFor(e.Name)
               ELSE pc = "done" => NotesOf(e.Name) = OwnOutput_ng(FALSE, e)

\* a finished run whose first event is one-time and yearless: it has its
\* diagnostic and no notification, and the event behind it is announced
C7_Witness ==
    /\ pc = "done"
    /\ Len(config.Reminders) >= 2
    /\ config.Reminders[1].OneTimeEvent
    /\ ValidYearless(config.Reminders[1].Date)
    /\ LoggedFor(config.Reminders[1].Name)
    /\ NotesOf(config.Reminders[1].Name) = <<>>
    /\ NotesOf(config.Reminders[2].Name) # <<>>


\* C9: two runs on the same configuration end with the same layouts, and
\* the pattern "DD/MM/YYYY" is always converted to the layout "02/01/2006".
C9_SameLayoutEveryRun ==
    (\A r \in Runs : conv.run[r].step = 2) =>
        /\ conv.run[1] = conv.run[2]
        /\ \A r \in Runs :
               conv.DateFormat = <<"D", "D", "/", "M", "M", "/", "Y", "Y", "Y", "Y">>
               => conv.run[r].DateFormat =
                      <<"0", "2", "/", "0", "1", "/", "2", "0", "0", "6">>


\* the lines an announced entry is to have: its primary line, and its
\* message line when it has a message
PrimaryAndMessage(e) ==
    IF NotesOf(e.Name) = <<>> THEN <<>>
    ELSE <<NotesOf(e.Name)[1]>> \o
         (IF e.Message # "" THEN <<[tmpl |-> "Message", text |-> e.Message]>>
          ELSE <<>>)

RECURSIVE PrimaryAndMessages(_, _)
PrimaryAndMessages(entries, n) ==
    IF n = 0 THEN <<>>
    ELSE PrimaryAndMessages(entries, n - 1) \o PrimaryAndMessage(entries[n])

\* C11: with the built-in default templates the output of a finished run
\* is, entry by entry, one primary line and then one message line iff the
\* entry has a message: no empty or extra line, and nothing for an entry
\* that is not announced.
C11_PrimaryThenMessageOnly ==
    (pc = "done" /\ config.Template = defaultTemplate) =>
        out = PrimaryAndMessages(config.Birthdays, Len(config.Birthdays)) \o
              PrimaryAndMessages(config.Reminders, Len(config.Reminders))

\* C12: when the file has no [template] section, every notification is
\* rendered with the built-in default texts.
C12_DefaultsWithoutTemplateSection ==
    file.template = <<>> =>
        \A k \in DOMAIN out :
            out[k].tmpl \notin {"Message", "Blank"} => out[k].text = "default"

\* C13: the offset a notification announces is the number of calendar days
\* from now's date to the date of the announced occurrence, whatever the
\* time of day of now: 0 on now's date, 1 on the following date.
C13_OffsetIsCalendarDays ==
    \A k \in DOMAIN out :
        out[k].tmpl \notin {"Message", "Blank"} =>
            DueDays(out[k].Due) = absDay(out[k].Date.t) - absDay(now)

\* C13 under a clock at midnight, as main of britto.go truncates it
C13_AtMidnight ==
    hourOf(now) = 0 => C13_OffsetIsCalendarDays

\* the entries dated 29 February: "29/02", or "29/02/YYYY" of a leap year
LeapDayEntries ==
    { x \in AllEntries :
          /\ ValidYearless(x[2].Date) \/ ValidWithYear(x[2].Date)
          /\ LeapDayText(x[2].Date) }

\* C14: an entry dated 29 February is accepted, and the occurrence it is
\* announced for is 29 February when that occurrence's year is a leap year
\* and 1 March when it is not, whatever now's year.
C14_LeapDayFallsBack ==
    \A x \in LeapDayEntries :
        /\ parseDate(x[2].Date, now).err = nil
        /\ ~LoggedFor(x[2].Name)
        /\ \A k \in DOMAIN NotesOf(x[2].Name) :
               NotesOf(x[2].Name)[k].Date.t =
                   Occurrence(2, 29, NotesOf(x[2].Name)[k].Date.t.year)

\* C14 for a now in a leap year, where parseDate keeps 29 February
C14_FromLeapYear ==
    isLeap(now.year) => C14_LeapDayFallsBack

\* C15: an entry whose text has a year and whose full date is strictly
\* before now is never announced, also when the year is now's year and the
\* same day of the following year is inside the window.
C15_PastFullDateSkipped ==
    \A x \in AllEntries :
        (ValidWithYear(x[2].Date) /\ Before(TextDate(x[2].Date), now)) =>
            NotesOf(x[2].Name) = <<>>

\* C15 for a full date in a year before now's year: the year test of
\* processReminders skips it
C15_EarlierYearSkipped ==
    \A x \in AllEntries :
        (ValidWithYear(x[2].Date) /\ TextYear(x[2].Date) < now.year) =>
            NotesOf(x[2].Name) = <<>>

\* the age a birthday notification renders
Ages ==
    { out[k].AgeOrDays :
          k \in { j \in DOMAIN out : out[j].tmpl \in {"Birthday0", "Birthday"} } }

\* C16: the age rendered in a birthday notification is never negative.
C16_AgeNeverNegative ==
    \A a \in Ages : a >= 0

\* C16 for the birthdays without a year, whose origin year parseDate sets
C16_YearlessAgeNeverNegative ==
    \A e \in BirthdayEntries :
        ValidYearless(e.Date) =>
            \A k \in DOMAIN NotesOf(e.Name) : NotesOf(e.Name)[k].AgeOrDays >= 0

\* the ranges a run of .britto-ng.go is given: those of the configuration
\* and one longer than a year
Ranges_ng ==
    {config.ReminderRange.Birthdays, config.ReminderRange.Events, 400}

\* C17: no entry is announced twice in one run: the candidate loop of
\* src/britto.go prints at most one candidate per entry, and the two blocks
\* of src/.britto-ng.go never both print, for every now and every range,
\* those of a year and more included.
C17_AtMostOncePerRun ==
    \A x \in AllEntries :
        /\ Len(NotesOf(x[2].Name)) <= 1
        /\ \A r \in Ranges_ng :
               Len(processReminder_ng(x[2], now, "Reminder", x[1], r).lines) <= 1

\* an entry whose two candidates are both inside its window has been
\* processed and announced once
C17_Witness ==
    \E x \in AllEntries :
        /\ ValidYearless(x[2].Date)
        /\ candidateDue(now, parseDate(x[2].Date, now).date, 0,
                        EffectiveRange(x[1], x[2]))
        /\ candidateDue(now, parseDate(x[2].Date, now).date, 1,
                        EffectiveRange(x[1], x[2]))
        /\ EffectiveRange(x[1], x[2]) >= 365
        /\ Len(NotesOf(x[2].Name)) = 1

\* C17 for a run of src/.britto-ng.go
C17_AtMostOncePerRun_ng ==
    \A x \in AllEntries : Len(NotesOf(x[2].Name)) <= 1

====
